---------------------------- MODULE Spec2Model ----------------------------
(***************************************************************************)
(* FinOps assistant (04-UX-demos/06-finops-agent/docker_app/app.py): one    *)
(* Streamlit session.  Every script run is one action: the first run        *)
(* creates the tool providers and the agent, later runs are a sidebar       *)
(* button or a chat turn.  The agent's tool-call loop is the library call   *)
(* `st.session_state.agent(prompt)`; it is modelled from the design         *)
(* document (section 4.5) and runs between ChatInput and CompleteTurn.      *)
(*                                                                         *)
(* total_cost is kept in units of 1e-6 USD, so the float arithmetic of the  *)
(* source is modelled as exact arithmetic.                                  *)
(*                                                                         *)
(* Around the session: the conversation manager's summarization, a script   *)
(* run that the front end asks to stop, the end of the session and of the   *)
(* server process with the atexit cleanup, a second session on the same     *)
(* server, the chat turn of app_streaming.py with its callback, and the     *)
(* token estimator on its own.                                              *)
(***************************************************************************)
EXTENDS Integers, Sequences, FiniteSets, TLC

\* ------------------------------------------------------------------ bounds
\* SpecLedger: a prompt is accepted only while the conversation has room for
\* its turns; tool calls the model may request within one turn; chat turns a
\* session is followed for
MaxMessages == 5
MaxToolCalls == 1
MaxTurns == 2
\* SpecLoop: the same three bounds
MaxLoopMessages == 6
MaxLoopToolCalls == 2
MaxLoopTurns == 2
\* length in characters of the system prompt (an f-string in the source)
SystemPromptChars == 40

\* SpecSummary: the same three bounds, with room for a conversation that the
\* conversation manager summarizes
MaxSummaryMessages == 24
MaxSummaryTurns == 12

\* SpecSessions: the same three bounds, for each of the sessions
MaxSessionMessages == 4
MaxSessionToolCalls == 1
MaxSessionTurns == 1
\* SpecLifecycle: the same three bounds, and the calls of the cleanup the
\* exiting process is followed for
MaxLifeMessages == 4
MaxLifeToolCalls == 1
MaxLifeTurns == 1
MaxCleanupCalls == 2
\* SpecStream: the first two bounds, tool calls of a turn, and the calls of
\* the callback a streaming turn is followed for
MaxStreamMessages == 4
MaxStreamTurns == 1
MaxStreamEvents == 3
\* SpecEstimator: the longest text handed to the estimator
MaxTextChars == 20
\* SpecAuth: the same three bounds, for the session behind the login step
MaxAuthMessages == 4
MaxAuthToolCalls == 1
MaxAuthTurns == 1

\* --------------------------------------------------------- program constants
\* USD per 1M input tokens and per 1M output tokens
InputRate == 3
OutputRate == 15
\* SummarizingConversationManager(summary_ratio=0.3, preserve_recent_messages=15)
SummaryRatioTenths == 3
PreserveRecentMessages == 15

VARIABLES
    pc,               \* "new": no script run yet; "idle": between script runs;
                      \* "in_agent": inside st.session_state.agent(prompt)
    last_run,         \* what the most recent script run did
    conn,             \* state of the two tool-provider connections
    stored,           \* which client keys are in st.session_state
    agent,            \* "agent" in st.session_state
    agent_tools,      \* the tools list the agent was constructed with
    agent_messages,   \* st.session_state.agent.messages
    ss_messages,      \* st.session_state.messages (display history)
    start_index,      \* st.session_state.start_index
    stats,            \* the ledger keys of st.session_state: a function whose
                      \* domain is the set of keys present
    loop,             \* state of the agent's tool-call loop for the turn
    tool_calls,       \* tool calls requested so far in the running turn
    last_dispatch,    \* the latest dispatch of the running turn
    locals,           \* locals of the latest chat turn's script run
    h_run_start,      \* history: len(agent.messages) when the turn started
    h_before,         \* history: the ledger when the turn started
    h_sum,            \* history: sum of the per-turn increments and number of
                      \* turns completed since the last reset
    h_turns,          \* history: chat turns started in the session
    stop_request,     \* a stop of the running script run that the front end
                      \* has requested, and where the loop stood then
    h_summary,        \* history: the summarization of the running or latest turn
    output_buffer,    \* app_streaming.py: output_buffer of the running turn
    output,           \* app_streaming.py: st.session_state.output
    h_events,         \* history: the callback's calls of the running or
                      \* latest streaming turn, in arrival order
    atexit_registered,\* process: cleanup_mcp_clients is registered with atexit
    proc,             \* process: "running", "exiting" (the atexit handlers
                      \* run) or "exited"
    cleanup_calls,    \* process: calls of cleanup_mcp_clients made at exit
    cleanup_log,      \* process: what the latest call of cleanup_mcp_clients did
    cur,              \* process: the session the session variables belong to
    parked,           \* process: st.session_state and script position of the
                      \* sessions that are not running
    est_text,         \* estimator: the text handed to estimate_tokens_from_text
    est_tokens,       \* estimator: what the call returned, -1 before it returns
    est_prev,         \* estimator: text and result of the call before
    is_logged_in      \* what authenticator.login() returns to a script run of
                      \* the session

\* what belongs to one session: st.session_state, the position of its script
\* run and the histories kept of it
sessionVars == <<pc, last_run, conn, stored, agent, agent_tools, agent_messages,
                 ss_messages, start_index, stats, loop, tool_calls, last_dispatch,
                 locals, h_run_start, h_before, h_sum, h_turns, stop_request,
                 h_summary, output_buffer, output, h_events>>

\* what a step of the non-streaming chat turn never touches
apart == <<output_buffer, output, h_events, proc, cleanup_calls, cleanup_log, cur, parked,
           est_text, est_tokens, est_prev, is_logged_in>>

vars == <<pc, last_run, conn, stored, agent, agent_tools, agent_messages,
          ss_messages, start_index, stats, loop, tool_calls, last_dispatch,
          locals, h_run_start, h_before, h_sum, h_turns, stop_request,
          h_summary, output_buffer, output, h_events, atexit_registered, proc,
          cleanup_calls, cleanup_log, cur, parked, est_text, est_tokens,
          est_prev, is_logged_in>>

\* ------------------------------------------------------------------ values
Max(a, b) == IF a >= b THEN a ELSE b
Min(a, b) == IF a <= b THEN a ELSE b

\* tool lists a provider may advertise, in the order it advertises them
BillingToolLists == { <<"cost_explorer">>, <<"cost_explorer", "describe">> }
AwsApiToolLists == { <<"describe">>, <<"call_aws">>, <<"call_aws", "describe">> }

Prompts == { "What did I spend?" }
\* texts a model response may carry
PreambleTexts == { "Let me check." }
AnswerTexts == { "You spent $10." }

\* a usage attribute or key: absent, present but None, or present with figures
NoUsage == [present |-> FALSE, some |-> FALSE, inputTokens |-> 0, outputTokens |-> 0]
NoneUsage == [present |-> TRUE, some |-> FALSE, inputTokens |-> 0, outputTokens |-> 0]
Usage(i, o) == [present |-> TRUE, some |-> TRUE, inputTokens |-> i, outputTokens |-> o]
\* usage a conversation message may carry
MessageUsages == { NoUsage, Usage(10, 2) }
\* `usage` attribute of the agent object and of the response object
AttrUsages == { NoUsage, NoneUsage, Usage(7, 1) }

\* Python truthiness of what m.get("usage") / obj.usage evaluates to
Truthy(u) == u.present /\ u.some

LedgerKeys == { "total_tokens", "total_cost", "total_requests" }

\* content blocks
TextBlock(t) == [text |-> t]
ToolUseBlock(n, p) == [toolUse |-> [name |-> n, provider |-> p]]
ToolResultBlock(s, t) == [toolResult |-> [status |-> s, text |-> t]]
Message(r, c, u) == [role |-> r, content |-> c, usage |-> u]

\* ------------------------------------------------------------ login gate
\* Config.ENABLE_AUTH
ENABLE_AUTH == TRUE

\* mutant: the run is not stopped when login() returns false
PassesLoginAlways(logged_in) == TRUE

\* the top of the script: with authentication enabled the run goes on past
\* the login step only when authenticator.login() has returned true
PassesLogin(logged_in) == ENABLE_AUTH => logged_in

\* ------------------------------------------------- session initialisation
RECURSIVE Tagged(_, _)
\* a provider's list_tools_sync() result: its tools, tagged with their origin
Tagged(names, p) ==
    IF names = <<>> THEN <<>>
    ELSE <<[name |-> Head(names), provider |-> p]>> \o Tagged(Tail(names), p)

\* mutant: extend written as an insertion at the front
ExtendToolsFront(all_tools, tools) == tools \o all_tools

\* all_tools.extend: the second list is appended to the first, nothing dropped
ExtendTools(all_tools, tools) == all_tools \o tools

\* Agent(...) at the three construction sites: the tools the agent ends with.
\* ctor_ok = FALSE: the first construction raised, the fallback agent is built
AgentToolsFor(raw_mcp_tools, ctor_ok) ==
    IF raw_mcp_tools # <<>> /\ ctor_ok THEN raw_mcp_tools ELSE <<>>

\* mutant: the client is put into st.session_state before it is started
StoredBeforeStart(client, enter_ok) == client

\* st.session_state.<client> = <client> is the statement after
\* <client>.__enter__() in the try block: it runs when the client was created
\* and __enter__ returned
StoredAfterStart(client, enter_ok) == client /\ enter_ok

\* <client>.list_tools_sync() is the statement after the store
ListCalledAfterStart(client, enter_ok) == client /\ enter_ok

\* mutant: the initialisation block is not guarded
AgentMissingOrPresent(has_agent) == TRUE

\* `if "agent" not in st.session_state:`, the guard of the initialisation block
AgentMissing(has_agent) == ~has_agent

\* the first script run of a session: providers are started in the fixed order
\* billing, AWS API, each inside its own try block, then the agent is created
InitSession(b_enter, b_list, b_tools, a_client, a_enter, a_list, a_tools, ctor_ok) ==
    /\ pc \in {"new", "idle"}
    /\ PassesLogin(is_logged_in)
    /\ AgentMissing(agent)
    /\ LET billing_tools == IF b_enter /\ b_list THEN Tagged(b_tools, "billing") ELSE <<>>
           aws_api_tools == IF a_client /\ a_enter /\ a_list
                            THEN Tagged(a_tools, "aws_api") ELSE <<>>
           all_tools == ExtendTools(ExtendTools(<<>>, billing_tools), aws_api_tools)
       IN  /\ conn' = [billing |-> IF b_enter THEN "Ready" ELSE "Failed",
                       aws_api |-> IF ~a_client THEN "Unstarted"
                                   ELSE IF a_enter THEN "Ready" ELSE "Failed"]
           /\ stored' = [billing |-> StoredAfterStart(TRUE, b_enter),
                         aws_api |-> StoredAfterStart(a_client, a_enter)]
           /\ agent_tools' = AgentToolsFor(all_tools, ctor_ok)
           /\ locals' = [locals EXCEPT !.raw_mcp_tools = all_tools,
                                       !.ctor_ok = ctor_ok,
                                       !.entered = [billing |-> b_enter,
                                                    aws_api |-> a_client /\ a_enter],
                                       !.list_called =
                                           [billing |-> ListCalledAfterStart(TRUE, b_enter),
                                            aws_api |-> ListCalledAfterStart(a_client, a_enter)],
                                       !.listed = [billing |-> b_enter /\ b_list,
                                                   aws_api |-> a_client /\ a_enter /\ a_list],
                                       !.billing_tools = billing_tools,
                                       !.aws_api_tools = aws_api_tools]
    /\ agent' = TRUE
    /\ agent_messages' = <<>>
    /\ start_index' = 0
    /\ pc' = "idle"
    /\ last_run' = "init"
    /\ UNCHANGED <<ss_messages, stats, loop, tool_calls, last_dispatch,
                   h_run_start, h_before, h_sum, h_turns>>
    /\ atexit_registered' = TRUE
    /\ UNCHANGED <<stop_request, h_summary, apart>>

NoDispatch == [tool |-> "", provider |-> "", outcome |-> "none", conn_before |-> ""]

\* total_request_cost of a run that has not shown a request cost
NotDisplayed == -1

\* the locals of a script run before it has assigned any of them
InitLocals ==
    [raw_mcp_tools |-> <<>>, ctor_ok |-> TRUE,
     entered |-> [billing |-> FALSE, aws_api |-> FALSE],
     list_called |-> [billing |-> FALSE, aws_api |-> FALSE],
     listed |-> [billing |-> FALSE, aws_api |-> FALSE],
     billing_tools |-> <<>>, aws_api_tools |-> <<>>,
     prompt |-> "", assistant_response |-> "", branch |-> "none",
     found |-> NoUsage, usage_metrics |-> NoUsage,
     inc_tokens |-> 0, inc_cost |-> 0,
     agent_usage |-> NoUsage, response_usage |-> NoUsage,
     total_request_cost |-> NotDisplayed, start_index |-> 0]

\* no stop of the script run has been requested
NoStop == [why |-> "none", h_at |-> "Idle"]

\* no summarization has run in the turn
NoSummary == [ran |-> FALSE, before |-> <<>>, folded |-> 0, tokens |-> 0, cost |-> 0]

\* cleanup_mcp_clients has not been called
NoCleanup == [billing |-> "skipped", aws_api |-> "skipped", raised |-> FALSE]

\* --------------------------------------------------------------- estimator
\* Python's n // 3.2 for an int n >= 0: the float 3.2 lies just above 16/5, so
\* the quotient is floor(5n/16), one less when 16 divides n (16 // 3.2 == 4.0)
FloorDiv3_2(n) ==
    IF n > 0 /\ n % 16 = 0 THEN (5 * n) \div 16 - 1 ELSE (5 * n) \div 16

\* mutant: the result is not lifted to 1
EstimateTokensNoMinimum(n) == IF n = 0 THEN 0 ELSE FloorDiv3_2(n)

\* estimate_tokens_from_text on a text of n characters
EstimateTokensFromChars(n) == IF n = 0 THEN 0 ELSE Max(1, FloorDiv3_2(n))

estimate_tokens_from_text(text) == EstimateTokensFromChars(Len(text))

\* len(json.dumps(item)) of a content block (ASCII, nothing to escape; a tool
\* use carries an empty id and input, a tool result an empty id)
JsonDumpsChars(item) ==
    IF "text" \in DOMAIN item THEN 12 + Len(item.text)
    ELSE IF "toolUse" \in DOMAIN item THEN 55 + Len(item.toolUse.name)
    ELSE 74 + Len(item.toolResult.status) + Len(item.toolResult.text)

RECURSIVE ContentTokens(_)
ContentTokens(content) ==
    IF content = <<>> THEN 0
    ELSE EstimateTokensFromChars(JsonDumpsChars(Head(content)))
         + ContentTokens(Tail(content))

RECURSIVE MessagesTokens(_)
MessagesTokens(msgs) ==
    IF msgs = <<>> THEN 0
    ELSE estimate_tokens_from_text(Head(msgs).role)
         + ContentTokens(Head(msgs).content)
         + MessagesTokens(Tail(msgs))

\* calculate_conversation_tokens(agent.messages, system_prompt)
calculate_conversation_tokens(msgs) ==
    EstimateTokensFromChars(SystemPromptChars) + MessagesTokens(msgs)

\* mutant: the two rates exchanged
RequestCostRatesExchanged(i, o) == i * OutputRate + o * InputRate

\* cost of a request in units of 1e-6 USD: (i / 1e6) * 3.00 + (o / 1e6) * 15.00
RequestCost(i, o) == i * InputRate + o * OutputRate

\* the "Request Cost" of the metrics expander, computed again from
\* usage_metrics; nothing is shown when both counts are zero
DisplayedRequestCost(usage_metrics) ==
    IF usage_metrics.inputTokens > 0 \/ usage_metrics.outputTokens > 0
    THEN usage_metrics.inputTokens * InputRate + usage_metrics.outputTokens * OutputRate
    ELSE NotDisplayed

\* ------------------------------------------------------------ usage ledger
EmptyStats == [k \in {} |-> 0]

\* the ledger as the sidebar reads it: an absent key counts as zero
LedgerView(s) ==
    [k \in LedgerKeys |-> IF k \in DOMAIN s THEN s[k] ELSE 0]

\* the sidebar's test before it shows the metrics and divides total_cost by
\* total_requests
SidebarShowsMetrics(s) == "total_requests" \in DOMAIN s /\ s["total_requests"] > 0

\* the ledger keys the sidebar reads once the test has passed
SidebarReads == { "total_requests", "total_tokens", "total_cost" }

\* mutant: the request counter is not incremented
LedgerAddNoRequest(s, tokens, cost) ==
    LET s0 == IF "total_tokens" \notin DOMAIN s
              THEN [k \in DOMAIN s \cup LedgerKeys |-> 0]
              ELSE s
    IN  [s0 EXCEPT !["total_tokens"] = @ + tokens,
                   !["total_cost"] = @ + cost]

\* "Update session totals": the three keys are created together when
\* total_tokens is absent, then each receives its increment
LedgerAdd(s, tokens, cost) ==
    LET s0 == IF "total_tokens" \notin DOMAIN s
              THEN [k \in DOMAIN s \cup LedgerKeys |-> 0]
              ELSE s
    IN  [s0 EXCEPT !["total_tokens"] = @ + tokens,
                   !["total_cost"] = @ + cost,
                   !["total_requests"] = @ + 1]

\* mutant: the request counter is left out of the list of keys to delete
DeleteLedgerKeysButRequests(s) ==
    [k \in DOMAIN s \ {"total_tokens", "total_cost"} |-> s[k]]

\* mutant: the loop stops after its first key
DeleteLedgerKeysFirstOnly(s) == [k \in DOMAIN s \ {"total_tokens"} |-> s[k]]

\* the Reset Stats loop: every ledger key that is present is deleted
DeleteLedgerKeys(s) == [k \in DOMAIN s \ LedgerKeys |-> s[k]]

\* ------------------------------------------- what a turn reads back (591-626)
HasText(content) == \E i \in 1..Len(content) : "text" \in DOMAIN content[i]

FirstText(content) ==
    content[CHOOSE i \in 1..Len(content) :
                /\ "text" \in DOMAIN content[i]
                /\ \A j \in 1..(i - 1) : "text" \notin DOMAIN content[j]].text

RECURSIVE ExtractResponse(_, _)
\* the loop over agent.messages: each assistant message that has a text item
\* overwrites assistant_response with its first text item
ExtractResponse(msgs, acc) ==
    IF msgs = <<>> THEN acc
    ELSE LET m == Head(msgs)
         IN  ExtractResponse(Tail(msgs),
                 IF m.role = "assistant" /\ m.content # <<>> /\ HasText(m.content)
                 THEN FirstText(m.content) ELSE acc)

RECURSIVE MessageUsage(_, _)
\* the same loop: each message whose usage is truthy overwrites usage_metrics
MessageUsage(msgs, acc) ==
    IF msgs = <<>> THEN acc
    ELSE MessageUsage(Tail(msgs),
             IF Truthy(Head(msgs).usage) THEN Head(msgs).usage ELSE acc)

\* hasattr(obj, 'usage') then usage_metrics = obj.usage, whatever its value
OverrideWith(attr, usage_metrics) ==
    IF attr.present THEN attr ELSE usage_metrics

\* usage_metrics as it stands at line 628
FoundUsage(msgs, agent_usage, response_usage) ==
    OverrideWith(response_usage,
        OverrideWith(agent_usage, MessageUsage(msgs, NoneUsage)))

\* ------------------------------------------------ the agent's tool-call loop
\* mutant: a turn that holds a tool result is not recorded
AppendTurnNoResult(msgs, m) ==
    IF \E i \in 1..Len(m.content) : "toolResult" \in DOMAIN m.content[i]
    THEN msgs ELSE Append(msgs, m)

\* Conversation Store append
AppendTurn(msgs, m) == Append(msgs, m)

\* lines 568-586: the prompt goes to the display history and the agent is
\* called; the agent appends the User turn and awaits the model
ChatInput(prompt, max_messages, max_turns) ==
    /\ pc = "idle"
    /\ PassesLogin(is_logged_in)
    /\ agent
    /\ Len(agent_messages) + 2 <= max_messages
    /\ h_turns < max_turns
    /\ h_turns' = h_turns + 1
    /\ ss_messages' = Append(ss_messages, [role |-> "user", content |-> prompt])
    /\ agent_messages' =
           AppendTurn(agent_messages, Message("user", <<TextBlock(prompt)>>, NoUsage))
    /\ loop' = "AwaitingModel"
    /\ tool_calls' = 0
    /\ last_dispatch' = NoDispatch
    /\ locals' = [InitLocals EXCEPT !.prompt = prompt]
    /\ h_run_start' = Len(agent_messages)
    /\ h_before' = LedgerView(stats)
    /\ pc' = "in_agent"
    /\ UNCHANGED <<last_run, conn, stored, agent, agent_tools, start_index,
                   stats, h_sum>>
    /\ h_summary' = NoSummary
    /\ UNCHANGED <<stop_request, atexit_registered, apart>>

\* the model's response holds a tool call (after an optional text): the
\* Assistant turn is appended and the call is dispatched next
ModelRequestsTool(t, preamble, usage, max_messages, max_tool_calls) ==
    /\ pc = "in_agent"
    /\ loop = "AwaitingModel"
    /\ tool_calls < max_tool_calls
    /\ Len(agent_messages) + 3 <= max_messages
    /\ t \in 1..Len(agent_tools)
    /\ agent_messages' =
           AppendTurn(agent_messages,
               Message("assistant",
                       preamble \o <<ToolUseBlock(agent_tools[t].name,
                                                  agent_tools[t].provider)>>,
                       usage))
    /\ loop' = "AwaitingTool"
    /\ tool_calls' = tool_calls + 1
    /\ UNCHANGED <<pc, last_run, conn, stored, agent, agent_tools, ss_messages,
                   start_index, stats, last_dispatch, locals, h_run_start,
                   h_before, h_sum, h_turns>>
    /\ UNCHANGED <<stop_request, h_summary, atexit_registered, apart>>

\* the model's response holds no tool call: it is the final Assistant turn
ModelAnswers(content, usage) ==
    /\ pc = "in_agent"
    /\ loop = "AwaitingModel"
    /\ agent_messages' = AppendTurn(agent_messages, Message("assistant", content, usage))
    /\ loop' = "Done"
    /\ UNCHANGED <<pc, last_run, conn, stored, agent, agent_tools, ss_messages,
                   start_index, stats, tool_calls, last_dispatch, locals,
                   h_run_start, h_before, h_sum, h_turns>>
    /\ UNCHANGED <<stop_request, h_summary, atexit_registered, apart>>

\* the model endpoint call fails: ModelEndpointError, raised out of the loop
ModelFails ==
    /\ pc = "in_agent"
    /\ loop = "AwaitingModel"
    /\ loop' = "Raised"
    /\ UNCHANGED <<pc, last_run, conn, stored, agent, agent_tools, agent_messages,
                   ss_messages, start_index, stats, tool_calls, last_dispatch,
                   locals, h_run_start, h_before, h_sum, h_turns>>
    /\ UNCHANGED <<stop_request, h_summary, atexit_registered, apart>>

\* outcomes of invoke on a connection in the given state
InvokeOutcomes(state) ==
    IF state = "Ready" THEN {"ok", "tool_error", "crash"}
    ELSE {"not_ready"}

\* mutant: only a provider-side error is reported, a dead connection is not
DispatchStatusToolErrorOnly(outcome) ==
    IF outcome = "tool_error" THEN "error" ELSE "success"

\* dispatch: a connection-level failure becomes the status of the ToolResult
DispatchStatus(outcome) == IF outcome = "ok" THEN "success" ELSE "error"

\* the text of the ToolResult
ResultText(outcome) == IF outcome = "ok" THEN "$10" ELSE "failed"

\* the loop's state after a dispatch with that outcome
AfterDispatch(outcome) == "AwaitingModel"

\* the connection after invoke: a crashed subprocess leaves it Failed
ConnAfterInvoke(state, outcome) == IF outcome = "crash" THEN "Failed" ELSE state

\* the pending tool call is dispatched and its ToolResult appended as a User turn
DispatchTool(outcome) ==
    /\ pc = "in_agent"
    /\ loop = "AwaitingTool"
    /\ LET m == agent_messages[Len(agent_messages)]
           call == m.content[Len(m.content)].toolUse
       IN  /\ outcome \in InvokeOutcomes(conn[call.provider])
           /\ conn' = [conn EXCEPT ![call.provider] = ConnAfterInvoke(@, outcome)]
           /\ agent_messages' =
                  AppendTurn(agent_messages,
                      Message("user",
                              <<ToolResultBlock(DispatchStatus(outcome), ResultText(outcome))>>,
                              NoUsage))
           /\ last_dispatch' = [tool |-> call.name, provider |-> call.provider,
                                outcome |-> outcome,
                                conn_before |-> conn[call.provider]]
    /\ loop' = AfterDispatch(outcome)
    /\ UNCHANGED <<pc, last_run, stored, agent, agent_tools, ss_messages,
                   start_index, stats, tool_calls, locals, h_run_start,
                   h_before, h_sum, h_turns>>
    /\ UNCHANGED <<stop_request, h_summary, atexit_registered, apart>>

\* ------------------------------------------------ the conversation manager
\* text of the synthetic turn a summarization produces
SummaryText == "Summary: you spent $10."
\* usage the model endpoint reports for a summarization request
SummaryUsages == { Usage(20, 4) }

\* the synthetic turn that stands for the folded turns
SummaryTurn == Message("assistant", <<TextBlock(SummaryText)>>, NoUsage)

\* how many of the oldest n turns a summarization folds: the ratio's share of
\* the conversation, int(n * 0.3), at least one, and never any of the
\* preserve_recent_messages most recent
SummarizeCount(n) ==
    Min(Max(1, (n * SummaryRatioTenths) \div 10), n - PreserveRecentMessages)

\* the conversation after a summarization
Summarized(msgs) ==
    <<SummaryTurn>> \o SubSeq(msgs, SummarizeCount(Len(msgs)) + 1, Len(msgs))

\* the conversation manager reduces the context before the model is called:
\* one model round-trip that produces the synthetic turn
Summarize(usage) ==
    /\ pc = "in_agent"
    /\ loop = "AwaitingModel"
    /\ ~h_summary.ran
    /\ SummarizeCount(Len(agent_messages)) > 0
    /\ agent_messages' = Summarized(agent_messages)
    /\ h_summary' = [ran |-> TRUE, before |-> agent_messages,
                     folded |-> SummarizeCount(Len(agent_messages)),
                     tokens |-> usage.inputTokens + usage.outputTokens,
                     cost |-> RequestCost(usage.inputTokens, usage.outputTokens)]
    /\ h_run_start' = Len(Summarized(agent_messages))
                         - (Len(agent_messages) - h_run_start)
    /\ UNCHANGED <<pc, last_run, conn, stored, agent, agent_tools, ss_messages,
                   start_index, stats, loop, tool_calls, last_dispatch, locals,
                   h_before, h_sum, h_turns>>
    /\ UNCHANGED <<stop_request, atexit_registered, apart>>

\* ------------------------------------------------ the rest of the chat turn
\* lines 591-749, after the agent call has returned
CompleteTurn(agent_usage, response_usage) ==
    /\ pc = "in_agent"
    /\ loop = "Done"
    /\ stop_request.why = "none"
    /\ LET assistant_response == ExtractResponse(agent_messages, "")
           found == FoundUsage(agent_messages, agent_usage, response_usage)
           est_in == calculate_conversation_tokens(agent_messages)
           est_out == estimate_tokens_from_text(assistant_response)
           i == IF Truthy(found) THEN found.inputTokens ELSE est_in
           o == IF Truthy(found) THEN found.outputTokens ELSE est_out
       IN  /\ stats' = LedgerAdd(stats, i + o, RequestCost(i, o))
           /\ ss_messages' = Append(ss_messages,
                                 [role |-> "assistant", content |-> assistant_response])
           /\ locals' = [locals EXCEPT
                            !.assistant_response = assistant_response,
                            !.branch = IF Truthy(found) THEN "exact" ELSE "estimated",
                            !.found = found,
                            !.usage_metrics = Usage(i, o),
                            !.inc_tokens = i + o,
                            !.inc_cost = RequestCost(i, o),
                            !.agent_usage = agent_usage,
                            !.response_usage = response_usage,
                            !.total_request_cost = DisplayedRequestCost(Usage(i, o)),
                            !.start_index = start_index]
           /\ h_sum' = [total_tokens |-> h_sum["total_tokens"] + i + o,
                         total_cost |-> h_sum["total_cost"] + RequestCost(i, o),
                         total_requests |-> h_sum["total_requests"] + 1]
    /\ start_index' = Len(agent_messages)
    /\ loop' = "Idle"
    /\ tool_calls' = 0
    /\ last_dispatch' = NoDispatch
    /\ pc' = "idle"
    /\ last_run' = "turn_completed"
    /\ UNCHANGED <<conn, stored, agent, agent_tools, agent_messages,
                   h_run_start, h_before, h_turns>>
    /\ atexit_registered' = TRUE
    /\ UNCHANGED <<stop_request, h_summary, apart>>

\* mutant: the raise is swallowed and the run goes on to count the request
AbortTurnCounted ==
    /\ pc = "in_agent"
    /\ loop = "Raised"
    /\ stop_request.why = "none"
    /\ stats' = LedgerAdd(stats, 0, 0)
    /\ loop' = "Idle"
    /\ pc' = "idle"
    /\ tool_calls' = 0
    /\ last_dispatch' = NoDispatch
    /\ last_run' = "turn_raised"
    /\ UNCHANGED <<conn, stored, agent, agent_tools, agent_messages, ss_messages,
                   start_index, locals, h_run_start, h_before, h_sum, h_turns>>
    /\ UNCHANGED <<stop_request, h_summary, atexit_registered, apart>>

\* line 586 raises: nothing catches it, the script run ends there
AbortTurn ==
    /\ pc = "in_agent"
    /\ loop = "Raised"
    /\ stop_request.why = "none"
    /\ loop' = "Idle"
    /\ pc' = "idle"
    /\ tool_calls' = 0
    /\ last_dispatch' = NoDispatch
    /\ last_run' = "turn_raised"
    /\ UNCHANGED <<conn, stored, agent, agent_tools, agent_messages, ss_messages,
                   start_index, stats, locals, h_run_start, h_before, h_sum, h_turns>>
    /\ UNCHANGED <<stop_request, h_summary, atexit_registered, apart>>

\* ---------------------------------------------------------- sidebar buttons
\* lines 545-549
ResetStats ==
    /\ pc = "idle"
    /\ PassesLogin(is_logged_in)
    /\ stats' = DeleteLedgerKeys(stats)
    /\ h_sum' = LedgerView(EmptyStats)
    /\ locals' = InitLocals
    /\ last_run' = "reset_stats"
    /\ h_run_start' = 0
    /\ h_before' = LedgerView(EmptyStats)
    /\ UNCHANGED <<pc, conn, stored, agent, agent_tools, agent_messages,
                   ss_messages, start_index, loop, tool_calls, last_dispatch,
                   h_turns>>
    /\ UNCHANGED <<stop_request, h_summary, atexit_registered, apart>>

\* mutant: Fresh Chat deletes the ledger keys as well
FreshChatDeletingStats ==
    /\ pc = "idle"
    /\ PassesLogin(is_logged_in)
    /\ ss_messages' = <<>>
    /\ agent_messages' = IF agent THEN <<>> ELSE agent_messages
    /\ start_index' = 0
    /\ stats' = DeleteLedgerKeys(stats)
    /\ h_sum' = LedgerView(EmptyStats)
    /\ locals' = InitLocals
    /\ last_run' = "fresh_chat"
    /\ h_run_start' = 0
    /\ h_before' = LedgerView(EmptyStats)
    /\ UNCHANGED <<pc, conn, stored, agent, agent_tools, loop, tool_calls,
                   last_dispatch, h_turns>>
    /\ UNCHANGED <<stop_request, h_summary, atexit_registered, apart>>

\* lines 552-559
FreshChat ==
    /\ pc = "idle"
    /\ PassesLogin(is_logged_in)
    /\ ss_messages' = <<>>
    /\ agent_messages' = IF agent THEN <<>> ELSE agent_messages
    /\ start_index' = 0
    /\ locals' = InitLocals
    /\ last_run' = "fresh_chat"
    /\ h_run_start' = 0
    /\ h_before' = LedgerView(EmptyStats)
    /\ UNCHANGED <<pc, conn, stored, agent, agent_tools, stats, loop, tool_calls,
                   last_dispatch, h_sum, h_turns>>
    /\ UNCHANGED <<stop_request, h_summary, atexit_registered, apart>>

\* a script rerun with no widget input: "agent" and "start_index" are in the
\* session state, no button is pressed and st.chat_input returns None
Rerun ==
    /\ pc = "idle"
    /\ PassesLogin(is_logged_in)
    /\ locals' = InitLocals
    /\ last_run' = "rerun"
    /\ UNCHANGED <<pc, conn, stored, agent, agent_tools, agent_messages,
                   ss_messages, start_index, stats, loop, tool_calls,
                   last_dispatch, h_run_start, h_before, h_sum, h_turns>>
    /\ atexit_registered' = TRUE
    /\ UNCHANGED <<stop_request, h_summary, apart>>

\* the chat sessions the server process is followed with
Sessions == { "s1", "s2" }

\* a session before its first script run
InitOneSession ==
    /\ pc = "new"
    /\ last_run = "none"
    /\ conn = [billing |-> "Unstarted", aws_api |-> "Unstarted"]
    /\ stored = [billing |-> FALSE, aws_api |-> FALSE]
    /\ agent = FALSE
    /\ agent_tools = <<>>
    /\ agent_messages = <<>>
    /\ ss_messages = <<>>
    /\ start_index = 0
    /\ stats = EmptyStats
    /\ loop = "Idle"
    /\ tool_calls = 0
    /\ last_dispatch = NoDispatch
    /\ locals = InitLocals
    /\ h_run_start = 0
    /\ h_before = LedgerView(EmptyStats)
    /\ h_sum = LedgerView(EmptyStats)
    /\ h_turns = 0
    /\ stop_request = NoStop
    /\ h_summary = NoSummary
    /\ output_buffer = <<>>
    /\ output = <<>>
    /\ h_events = <<>>

\* st.session_state, script position and histories of a session that has not
\* yet run
NewSessionState ==
    [pc |-> "new", last_run |-> "none",
     conn |-> [billing |-> "Unstarted", aws_api |-> "Unstarted"],
     stored |-> [billing |-> FALSE, aws_api |-> FALSE],
     agent |-> FALSE, agent_tools |-> <<>>, agent_messages |-> <<>>,
     ss_messages |-> <<>>, start_index |-> 0, stats |-> EmptyStats,
     loop |-> "Idle", tool_calls |-> 0, last_dispatch |-> NoDispatch,
     locals |-> InitLocals, h_run_start |-> 0,
     h_before |-> LedgerView(EmptyStats), h_sum |-> LedgerView(EmptyStats),
     h_turns |-> 0, stop_request |-> NoStop, h_summary |-> NoSummary,
     output_buffer |-> <<>>, output |-> <<>>, h_events |-> <<>>]

\* the server process when it starts: no script has run
InitProcess ==
    /\ atexit_registered = FALSE
    /\ proc = "running"
    /\ cleanup_calls = 0
    /\ cleanup_log = NoCleanup
    /\ cur = "s1"
    /\ parked = [s \in Sessions |-> NewSessionState]
    /\ is_logged_in = TRUE

\* no call of the estimator is followed
NoEstimate == [text |-> <<>>, tokens |-> -1]

Init ==
    /\ InitOneSession
    /\ InitProcess
    /\ est_text = <<>>
    /\ est_tokens = -1
    /\ est_prev = NoEstimate

\* ------------------------------------------------------- specifications
\* one step of the session, its inputs drawn from the sets of `in`
Step(in) ==
    \/ \E b_enter \in in.b_enter, b_list \in in.b_list, a_client \in in.a_client,
          a_enter \in in.a_enter, a_list \in in.a_list, ctor_ok \in in.ctor_ok,
          b_tools \in in.b_tools, a_tools \in in.a_tools :
            InitSession(b_enter, b_list, b_tools, a_client, a_enter, a_list, a_tools, ctor_ok)
    \/ \E prompt \in Prompts : ChatInput(prompt, in.max_messages, in.max_turns)
    \/ \E t \in 1..Len(agent_tools), preamble \in in.preambles, usage \in in.msg_usages :
            ModelRequestsTool(t, preamble, usage, in.max_messages, in.max_tool_calls)
    \/ \E content \in in.finals, usage \in in.msg_usages : ModelAnswers(content, usage)
    \/ ModelFails
    \/ \E outcome \in in.outcomes : DispatchTool(outcome)
    \/ \E agent_usage \in in.attr_usages, response_usage \in in.attr_usages :
            CompleteTurn(agent_usage, response_usage)
    \/ AbortTurn
    \/ ResetStats
    \/ FreshChat
    \/ Rerun

\* what a final model response may hold
FinalContents == { <<>> } \cup { <<TextBlock(t)>> : t \in AnswerTexts }

\* what may precede the tool call in a model response
Preambles == { <<>> } \cup { <<TextBlock(t)>> : t \in PreambleTexts }

\* the first script run with every outcome of the provider starts, then the
\* sidebar buttons: no chat turn
InitInputs ==
    [b_enter |-> BOOLEAN, b_list |-> BOOLEAN, a_client |-> BOOLEAN,
     a_enter |-> BOOLEAN, a_list |-> BOOLEAN, ctor_ok |-> BOOLEAN,
     b_tools |-> BillingToolLists, a_tools |-> AwsApiToolLists]

NextInit ==
    \/ \E b_enter \in InitInputs.b_enter, b_list \in InitInputs.b_list,
          a_client \in InitInputs.a_client, a_enter \in InitInputs.a_enter,
          a_list \in InitInputs.a_list, ctor_ok \in InitInputs.ctor_ok,
          b_tools \in InitInputs.b_tools, a_tools \in InitInputs.a_tools :
            InitSession(b_enter, b_list, b_tools, a_client, a_enter, a_list, a_tools, ctor_ok)
    \/ ResetStats
    \/ FreshChat
    \/ Rerun

SpecInit == Init /\ [][NextInit]_vars

\* the usage ledger over chat turns: the AWS API server is disabled
\* (ENABLE_AWS_API_SERVER=false), the billing server starts and its tools
\* succeed; every source of usage varies
LedgerInputs ==
    [b_enter |-> {TRUE}, b_list |-> {TRUE}, a_client |-> {FALSE},
     a_enter |-> {FALSE}, a_list |-> {FALSE}, ctor_ok |-> {TRUE},
     b_tools |-> { <<"cost_explorer">> }, a_tools |-> { <<"describe">> },
     max_messages |-> MaxMessages, max_tool_calls |-> MaxToolCalls,
     max_turns |-> MaxTurns,
     preambles |-> Preambles, finals |-> FinalContents,
     msg_usages |-> MessageUsages, attr_usages |-> AttrUsages,
     outcomes |-> {"ok"}]

NextLedger == Step(LedgerInputs)

SpecLedger == Init /\ [][NextLedger]_vars

\* the tool-call loop: both servers may start or fail, every outcome of a
\* dispatch; the model endpoint reports no usage
LoopInputs ==
    [b_enter |-> BOOLEAN, b_list |-> {TRUE}, a_client |-> {TRUE},
     a_enter |-> BOOLEAN, a_list |-> {TRUE}, ctor_ok |-> {TRUE},
     b_tools |-> { <<"cost_explorer">> }, a_tools |-> { <<"describe">> },
     max_messages |-> MaxLoopMessages, max_tool_calls |-> MaxLoopToolCalls,
     max_turns |-> MaxLoopTurns,
     preambles |-> { <<>> }, finals |-> FinalContents,
     msg_usages |-> { NoUsage }, attr_usages |-> { NoUsage },
     outcomes |-> {"ok", "tool_error", "crash", "not_ready"}]

NextLoop == Step(LoopInputs)

SpecLoop == Init /\ [][NextLoop]_vars

\* ------------------------------------- a script run that is asked to stop
\* why the front end asks a running script to stop: the user touched a widget
\* (a rerun is queued) or the browser session ended
StopReasons == { "rerun", "closed" }

\* the front end asks for the stop while the agent call is running
RequestStop(why) ==
    /\ pc = "in_agent"
    /\ stop_request.why = "none"
    /\ stop_request' = [why |-> why, h_at |-> loop]
    /\ UNCHANGED <<pc, last_run, conn, stored, agent, agent_tools, agent_messages,
                   ss_messages, start_index, stats, loop, tool_calls,
                   last_dispatch, locals, h_run_start, h_before, h_sum, h_turns,
                   h_summary, atexit_registered, apart>>

\* mutant: the agent call is cut short wherever the loop stands
StopPointAnywhere(l) == TRUE

\* where a requested stop takes effect: `response = agent(prompt)` is a plain
\* synchronous call, the script goes on only once it has returned or raised
StopPoint(l) == l \in {"Done", "Raised"}

\* the script run stops on leaving the spinner block, before anything of the
\* turn is read back: no ledger update, no reply in the display history
StopRun ==
    /\ pc = "in_agent"
    /\ stop_request.why # "none"
    /\ StopPoint(loop)
    /\ pc' = IF stop_request.why = "closed" THEN "ended" ELSE "idle"
    /\ last_run' = "turn_abandoned"
    /\ loop' = "Idle"
    /\ tool_calls' = 0
    /\ last_dispatch' = NoDispatch
    /\ stop_request' = [stop_request EXCEPT !.why = "none"]
    /\ UNCHANGED <<conn, stored, agent, agent_tools, agent_messages, ss_messages,
                   start_index, stats, locals, h_run_start, h_before, h_sum,
                   h_turns, h_summary, atexit_registered, apart>>

\* ------------------------------------------------- session and process end
\* the browser session ends between script runs: no code of the script runs
SessionEnds ==
    /\ pc = "idle"
    /\ pc' = "ended"
    /\ UNCHANGED <<last_run, conn, stored, agent, agent_tools, agent_messages,
                   ss_messages, start_index, stats, loop, tool_calls,
                   last_dispatch, locals, h_run_start, h_before, h_sum, h_turns,
                   stop_request, h_summary, atexit_registered, apart>>

\* the server process begins to exit: the interpreter runs the atexit handlers
ProcessExit ==
    /\ proc = "running"
    /\ pc \in {"idle", "ended"}
    /\ proc' = "exiting"
    /\ pc' = "ended"
    /\ UNCHANGED <<last_run, conn, stored, agent, agent_tools, agent_messages,
                   ss_messages, start_index, stats, loop, tool_calls,
                   last_dispatch, locals, h_run_start, h_before, h_sum, h_turns,
                   stop_request, h_summary, output_buffer, output, h_events,
                   atexit_registered, cleanup_calls, cleanup_log, cur, parked,
                   est_text, est_tokens, est_prev>>
    /\ UNCHANGED is_logged_in

\* what client.__exit__(None, None, None) may do: return, or raise with the
\* connection shut or left as it was
ExitOutcomes == { "ok", "raises_closed", "raises_open" }

\* the connection after __exit__
ConnAfterExit(state, outcome) ==
    IF outcome = "raises_open" THEN state ELSE "Closed"

\* one `if key in st.session_state: try: ... except Exception` block
CloseClient(present, outcome) ==
    IF ~present THEN "skipped"
    ELSE IF outcome = "ok" THEN "closed" ELSE "error_logged"

\* mutant: both closes inside one try block
CleanupOneTry(c, st, b_out, a_out) ==
    LET b == CloseClient(st.billing, b_out)
        a == IF b = "error_logged" THEN "skipped" ELSE CloseClient(st.aws_api, a_out)
    IN  [conn |-> [billing |-> IF b = "skipped" THEN c.billing
                               ELSE ConnAfterExit(c.billing, b_out),
                   aws_api |-> IF a = "skipped" THEN c.aws_api
                               ELSE ConnAfterExit(c.aws_api, a_out)],
         log |-> [billing |-> b, aws_api |-> a, raised |-> FALSE]]

\* cleanup_mcp_clients(): the two blocks one after the other, each with its
\* own handler, so nothing leaves the function
cleanup_mcp_clients(c, st, b_out, a_out) ==
    LET b == CloseClient(st.billing, b_out)
        a == CloseClient(st.aws_api, a_out)
    IN  [conn |-> [billing |-> IF b = "skipped" THEN c.billing
                               ELSE ConnAfterExit(c.billing, b_out),
                   aws_api |-> IF a = "skipped" THEN c.aws_api
                               ELSE ConnAfterExit(c.aws_api, a_out)],
         log |-> [billing |-> b, aws_api |-> a, raised |-> FALSE]]

\* the exiting interpreter calls a registered cleanup_mcp_clients; the script
\* registers it at the end of every run, so it is called again and again
RunAtExit(b_out, a_out) ==
    /\ proc = "exiting"
    /\ atexit_registered
    /\ cleanup_calls < MaxCleanupCalls
    /\ LET r == cleanup_mcp_clients(conn, stored, b_out, a_out)
       IN  /\ conn' = r.conn
           /\ cleanup_log' = r.log
    /\ cleanup_calls' = cleanup_calls + 1
    /\ UNCHANGED <<pc, last_run, stored, agent, agent_tools, agent_messages,
                   ss_messages, start_index, stats, loop, tool_calls,
                   last_dispatch, locals, h_run_start, h_before, h_sum, h_turns,
                   stop_request, h_summary, output_buffer, output, h_events,
                   atexit_registered, proc, cur, parked, est_text, est_tokens,
                   est_prev>>
    /\ UNCHANGED is_logged_in

\* every registered handler has run
ExitDone ==
    /\ proc = "exiting"
    /\ cleanup_calls >= 1
    /\ proc' = "exited"
    /\ UNCHANGED <<sessionVars, atexit_registered, cleanup_calls, cleanup_log,
                   cur, parked, est_text, est_tokens, est_prev>>
    /\ UNCHANGED is_logged_in

\* one session from its first script run to the exit of the process: both
\* servers are configured, each may fail to start, the billing server may fail
\* to list its tools, a tool call may crash its server
LifecycleInputs ==
    [b_enter |-> BOOLEAN, b_list |-> BOOLEAN, a_client |-> {TRUE},
     a_enter |-> BOOLEAN, a_list |-> {TRUE}, ctor_ok |-> {TRUE},
     b_tools |-> { <<"cost_explorer">> }, a_tools |-> { <<"describe">> },
     max_messages |-> MaxLifeMessages, max_tool_calls |-> MaxLifeToolCalls,
     max_turns |-> MaxLifeTurns,
     preambles |-> { <<>> }, finals |-> { <<TextBlock(t)>> : t \in AnswerTexts },
     msg_usages |-> { NoUsage }, attr_usages |-> { NoUsage },
     outcomes |-> {"ok", "crash"}]

NextLifecycle ==
    \/ Step(LifecycleInputs)
    \/ \E why \in StopReasons : RequestStop(why)
    \/ StopRun
    \/ SessionEnds
    \/ ProcessExit
    \/ \E b_out \in ExitOutcomes, a_out \in ExitOutcomes : RunAtExit(b_out, a_out)
    \/ ExitDone

SpecLifecycle == Init /\ [][NextLifecycle]_vars

\* ------------------------------------------------------ several sessions
\* st.session_state, script position and histories of the running session
SessionState ==
    [pc |-> pc, last_run |-> last_run, conn |-> conn, stored |-> stored,
     agent |-> agent, agent_tools |-> agent_tools,
     agent_messages |-> agent_messages, ss_messages |-> ss_messages,
     start_index |-> start_index, stats |-> stats, loop |-> loop,
     tool_calls |-> tool_calls, last_dispatch |-> last_dispatch,
     locals |-> locals, h_run_start |-> h_run_start, h_before |-> h_before,
     h_sum |-> h_sum, h_turns |-> h_turns, stop_request |-> stop_request,
     h_summary |-> h_summary, output_buffer |-> output_buffer,
     output |-> output, h_events |-> h_events]

\* mutant: the ledger keys live in one dictionary of the process, so a
\* session finds the ledger the session before it left
SessionStateSharedLedger(s) == [parked[s] EXCEPT !.stats = stats]

\* st.session_state as a script run of session s finds it: what the session's
\* own runs left there
SessionStateOf(s) == parked[s]

\* the server turns from the running session to session s: each session's
\* script runs in its own thread, so this may happen between any two steps
SwitchSession(s) ==
    /\ proc = "running"
    /\ s \in Sessions \ {cur}
    /\ cur' = s
    /\ parked' = [parked EXCEPT ![cur] = SessionState, ![s] = NewSessionState]
    /\ LET found == SessionStateOf(s)
       IN  /\ pc' = found.pc
           /\ last_run' = found.last_run
           /\ conn' = found.conn
           /\ stored' = found.stored
           /\ agent' = found.agent
           /\ agent_tools' = found.agent_tools
           /\ agent_messages' = found.agent_messages
           /\ ss_messages' = found.ss_messages
           /\ start_index' = found.start_index
           /\ stats' = found.stats
           /\ loop' = found.loop
           /\ tool_calls' = found.tool_calls
           /\ last_dispatch' = found.last_dispatch
           /\ locals' = found.locals
           /\ h_run_start' = found.h_run_start
           /\ h_before' = found.h_before
           /\ h_sum' = found.h_sum
           /\ h_turns' = found.h_turns
           /\ stop_request' = found.stop_request
           /\ h_summary' = found.h_summary
           /\ output_buffer' = found.output_buffer
           /\ output' = found.output
           /\ h_events' = found.h_events
    /\ UNCHANGED <<atexit_registered, proc, cleanup_calls, cleanup_log,
                   est_text, est_tokens, est_prev>>
    /\ UNCHANGED is_logged_in

\* two sessions on one server: the billing server of each may fail to start
\* and a tool call may crash it; the AWS API server is disabled
SessionsInputs ==
    [b_enter |-> BOOLEAN, b_list |-> {TRUE}, a_client |-> {FALSE},
     a_enter |-> {FALSE}, a_list |-> {FALSE}, ctor_ok |-> {TRUE},
     b_tools |-> { <<"cost_explorer">> }, a_tools |-> { <<"describe">> },
     max_messages |-> MaxSessionMessages, max_tool_calls |-> MaxSessionToolCalls,
     max_turns |-> MaxSessionTurns,
     preambles |-> { <<>> }, finals |-> { <<TextBlock(t)>> : t \in AnswerTexts },
     msg_usages |-> { NoUsage }, attr_usages |-> { NoUsage },
     outcomes |-> {"ok", "crash"}]

NextSessions ==
    \/ Step(SessionsInputs)
    \/ \E s \in Sessions : SwitchSession(s)

SpecSessions == Init /\ [][NextSessions]_vars

\* ------------------------------------------- app_streaming.py: a chat turn
\* keyword arguments the agent calls the callback with: a text delta, a tool
\* use under construction (its name may still be empty, its input missing),
\* a reasoning delta, or none of these keys
DataEvent(text) == [key |-> "data", text |-> text, name |-> "", has_input |-> FALSE]
ToolUseEvent(name, has_input) ==
    [key |-> "current_tool_use", text |-> "{}", name |-> name, has_input |-> has_input]
ReasoningEvent(text) ==
    [key |-> "reasoningText", text |-> text, name |-> "", has_input |-> FALSE]
OtherEvent == [key |-> "other", text |-> "", name |-> "", has_input |-> FALSE]

CallbackEvents ==
    { DataEvent("You "), DataEvent("spent $10."), ReasoningEvent("Look up. "),
      ToolUseEvent("cost_explorer", TRUE), ToolUseEvent("", TRUE),
      ToolUseEvent("cost_explorer", FALSE), OtherEvent }

\* "Add or append": a new entry unless the last entry is of that type
AppendOrExtend(buf, type, text) ==
    IF buf = <<>> \/ buf[Len(buf)].type # type
    THEN Append(buf, [type |-> type, content |-> text])
    ELSE [buf EXCEPT ![Len(buf)].content = @ \o text]

\* a fragment that is not a string: None
NoneFragment == "<None>"

IsStr(x) == x # NoneFragment

\* content += fragment raises TypeError unless both are strings
ExtendRaises(buf, type, x) ==
    /\ buf # <<>>
    /\ buf[Len(buf)].type = type
    /\ ~IsStr(buf[Len(buf)].content) \/ ~IsStr(x)

\* the events with a fragment of unexpected type among them
CallbackEventsAnyType ==
    CallbackEvents \cup { DataEvent(NoneFragment), ReasoningEvent(NoneFragment) }

\* the try block of custom_callback_handler: output_buffer after it and the
\* exception it ended with, "" when none.  A tool use always opens a new
\* entry; reading a missing input raises KeyError before anything is
\* appended, and += raises TypeError before the entry is assigned
CallbackBody(buf, kwargs) ==
    IF kwargs.key = "data"
    THEN IF ExtendRaises(buf, "data", kwargs.text)
         THEN [buf |-> buf, exc |-> "TypeError"]
         ELSE [buf |-> AppendOrExtend(buf, "data", kwargs.text), exc |-> ""]
    ELSE IF kwargs.key = "current_tool_use" /\ kwargs.name # ""
    THEN IF kwargs.has_input
         THEN [buf |-> Append(buf, [type |-> "tool_use",
                                    content |-> "Using tool: " \o kwargs.name
                                                   \o " with args: " \o kwargs.text]),
               exc |-> ""]
         ELSE [buf |-> buf, exc |-> "KeyError"]
    ELSE IF kwargs.key = "reasoningText"
    THEN IF ExtendRaises(buf, "reasoning", kwargs.text)
         THEN [buf |-> buf, exc |-> "TypeError"]
         ELSE [buf |-> AppendOrExtend(buf, "reasoning", kwargs.text), exc |-> ""]
    ELSE [buf |-> buf, exc |-> ""]

\* mutant: the body without its try block
CallbackHandlerNoExcept(buf, kwargs) ==
    [buf |-> CallbackBody(buf, kwargs).buf, logged |-> "",
     raised |-> CallbackBody(buf, kwargs).exc]

\* custom_callback_handler(**kwargs): the body inside try, and
\* `except Exception as e` printing the error and the kwargs: output_buffer
\* after the call, the exception that was printed and the one that left the
\* handler
custom_callback_handler(buf, kwargs) ==
    [buf |-> CallbackBody(buf, kwargs).buf, logged |-> CallbackBody(buf, kwargs).exc,
     raised |-> ""]

\* lines 452-502: the prompt goes to the display history, output and the
\* buffer are emptied, the callback is set and the agent is called
StreamChatInput(prompt) ==
    /\ pc = "idle"
    /\ PassesLogin(is_logged_in)
    /\ agent
    /\ Len(agent_messages) + 2 <= MaxStreamMessages
    /\ h_turns < MaxStreamTurns
    /\ h_turns' = h_turns + 1
    /\ ss_messages' = Append(ss_messages, [role |-> "user", content |-> prompt])
    /\ output' = <<>>
    /\ output_buffer' = <<>>
    /\ h_events' = <<>>
    /\ agent_messages' =
           AppendTurn(agent_messages, Message("user", <<TextBlock(prompt)>>, NoUsage))
    /\ loop' = "AwaitingModel"
    /\ tool_calls' = 0
    /\ last_dispatch' = NoDispatch
    /\ locals' = [InitLocals EXCEPT !.prompt = prompt]
    /\ h_run_start' = Len(agent_messages)
    /\ h_before' = LedgerView(stats)
    /\ h_summary' = NoSummary
    /\ pc' = "in_agent"
    /\ UNCHANGED <<last_run, conn, stored, agent, agent_tools, start_index,
                   stats, h_sum, stop_request, atexit_registered, proc,
                   cleanup_calls, cleanup_log, cur, parked, est_text,
                   est_tokens, est_prev>>
    /\ UNCHANGED is_logged_in

\* the agent calls the callback while the model's response streams in
Callback(kwargs) ==
    /\ pc = "in_agent"
    /\ loop = "AwaitingModel"
    /\ Len(h_events) < MaxStreamEvents
    /\ LET r == custom_callback_handler(output_buffer, kwargs)
       IN  /\ output_buffer' = r.buf
           /\ h_events' = Append(h_events,
                              [key |-> kwargs.key, text |-> kwargs.text,
                               name |-> kwargs.name, has_input |-> kwargs.has_input,
                               logged |-> r.logged, raised |-> r.raised])
           /\ loop' = IF r.raised # "" THEN "Raised" ELSE loop
    /\ UNCHANGED <<pc, last_run, conn, stored, agent, agent_tools, agent_messages,
                   ss_messages, start_index, stats, tool_calls,
                   last_dispatch, locals, h_run_start, h_before, h_sum, h_turns,
                   stop_request, h_summary, output, atexit_registered, proc,
                   cleanup_calls, cleanup_log, cur, parked, est_text,
                   est_tokens, est_prev>>
    /\ UNCHANGED is_logged_in

\* the entries of the output as entries of the display history
AsMessages(out) ==
    [i \in 1..Len(out) |->
        [role |-> "assistant", type |-> out[i].type, content |-> out[i].content]]

\* lines 504-520 and on to the end of the script: the buffer is copied to
\* the session's output and its entries are appended to the display history
StreamTurnEnds ==
    /\ pc = "in_agent"
    /\ loop = "Done"
    /\ stop_request.why = "none"
    /\ output' = output_buffer
    /\ ss_messages' = ss_messages \o AsMessages(output_buffer)
    /\ loop' = "Idle"
    /\ tool_calls' = 0
    /\ last_dispatch' = NoDispatch
    /\ pc' = "idle"
    /\ last_run' = "stream_completed"
    /\ atexit_registered' = TRUE
    /\ UNCHANGED <<conn, stored, agent, agent_tools, agent_messages, start_index,
                   stats, locals, h_run_start, h_before, h_sum, h_turns,
                   stop_request, h_summary, output_buffer, h_events, proc,
                   cleanup_calls, cleanup_log, cur, parked, est_text,
                   est_tokens, est_prev>>
    /\ UNCHANGED is_logged_in

\* app_streaming.py starts the billing server only; its Fresh Chat button is
\* that of app.py and a raise of the agent call ends the script run likewise
NextStream ==
    \/ \E b_enter \in BOOLEAN :
          InitSession(b_enter, TRUE, <<"cost_explorer">>, FALSE, FALSE, FALSE,
                      <<"describe">>, TRUE)
    \/ \E prompt \in Prompts : StreamChatInput(prompt)
    \/ \E kwargs \in CallbackEvents : Callback(kwargs)
    \/ \E t \in 1..Len(agent_tools) :
          ModelRequestsTool(t, <<>>, NoUsage, MaxStreamMessages, MaxToolCalls)
    \/ DispatchTool("ok")
    \/ \E t \in AnswerTexts : ModelAnswers(<<TextBlock(t)>>, NoUsage)
    \/ ModelFails
    \/ StreamTurnEnds
    \/ AbortTurn
    \/ FreshChat

SpecStream == Init /\ [][NextStream]_vars

\* the callback alone: a streaming turn without tool calls whose events may
\* carry a fragment of unexpected type
NextCallback ==
    \/ InitSession(TRUE, TRUE, <<"cost_explorer">>, FALSE, FALSE, FALSE,
                   <<"describe">>, TRUE)
    \/ \E prompt \in Prompts : StreamChatInput(prompt)
    \/ \E kwargs \in CallbackEventsAnyType : Callback(kwargs)
    \/ \E t \in AnswerTexts : ModelAnswers(<<TextBlock(t)>>, NoUsage)
    \/ StreamTurnEnds

SpecCallback == Init /\ [][NextCallback]_vars

\* ---------------------------------------------------- the estimator alone
\* a text of n characters
TextOfLen(n) == [i \in 1..n |-> "x"]

\* the texts the estimator is called with
EstimatorTexts == { TextOfLen(n) : n \in 0..MaxTextChars }

\* estimate_tokens_from_text(est_text) returns
Estimate ==
    /\ est_tokens = -1
    /\ est_tokens' = estimate_tokens_from_text(est_text)
    /\ UNCHANGED <<sessionVars, atexit_registered, proc, cleanup_calls,
                   cleanup_log, cur, parked, est_text, est_prev>>
    /\ UNCHANGED is_logged_in

\* the next call of the estimator, with any text
NextCall(text) ==
    /\ est_tokens # -1
    /\ est_prev' = [text |-> est_text, tokens |-> est_tokens]
    /\ est_text' = text
    /\ est_tokens' = -1
    /\ UNCHANGED <<sessionVars, atexit_registered, proc, cleanup_calls,
                   cleanup_log, cur, parked>>
    /\ UNCHANGED is_logged_in

InitEstimator ==
    /\ InitOneSession
    /\ InitProcess
    /\ est_text \in EstimatorTexts
    /\ est_tokens = -1
    /\ est_prev = NoEstimate

NextEstimator ==
    \/ Estimate
    \/ \E text \in EstimatorTexts : NextCall(text)

SpecEstimator == InitEstimator /\ [][NextEstimator]_vars

\* a long conversation: the billing server's tools are loaded but the model
\* answers without calling them, no usage is reported, and the conversation
\* manager may summarize once the conversation is longer than the turns it
\* preserves
NextSummary ==
    \/ InitSession(TRUE, TRUE, <<"cost_explorer">>, FALSE, FALSE, FALSE,
                   <<"describe">>, TRUE)
    \/ \E prompt \in Prompts : ChatInput(prompt, MaxSummaryMessages, MaxSummaryTurns)
    \/ \E usage \in SummaryUsages : Summarize(usage)
    \/ \E t \in AnswerTexts : ModelAnswers(<<TextBlock(t)>>, NoUsage)
    \/ CompleteTurn(NoUsage, NoUsage)

SpecSummary == Init /\ [][NextSummary]_vars

\* ------------------------------------------------------------------ claims
\* between script runs, the latest run being a completed chat turn
TurnCompleted == pc = "idle" /\ last_run = "turn_completed"

\* between script runs, the latest run being the session's first
InitDone == pc = "idle" /\ last_run = "init"

\* the turns the running or latest chat turn has appended to agent.messages
RunMessages == SubSeq(agent_messages, h_run_start + 1, Len(agent_messages))

RECURSIVE SumUsage(_)
\* input+output tokens over the usage the messages carry
SumUsage(msgs) ==
    IF msgs = <<>> THEN 0
    ELSE (IF Truthy(Head(msgs).usage)
          THEN Head(msgs).usage.inputTokens + Head(msgs).usage.outputTokens
          ELSE 0) + SumUsage(Tail(msgs))

C2_AccountingIdentity ==
    /\ LedgerView(stats) = h_sum
    /\ last_run = "reset_stats" => DOMAIN stats \cap LedgerKeys = {}
    /\ h_sum["total_requests"] = 0 => DOMAIN stats \cap LedgerKeys = {}

\* one turn counted since a reset that followed an earlier counted turn
C2_Witness ==
    /\ TurnCompleted
    /\ h_turns = 2
    /\ h_before["total_requests"] = 0
    /\ LedgerView(stats)["total_requests"] = 1
    /\ LedgerView(stats)["total_tokens"] > 0

\* C3: when every model response of the turn reports usage (and neither the
\* agent nor the response object carries any), the turn's increment of
\* total_tokens is the sum of input+output tokens over all those responses.
C3_TokensAreSumOfReported ==
    ( /\ TurnCompleted
      /\ ~locals.agent_usage.present
      /\ ~locals.response_usage.present
      /\ \A i \in 1..Len(RunMessages) :
            RunMessages[i].role = "assistant" => Truthy(RunMessages[i].usage) )
    => LedgerView(stats)["total_tokens"] - h_before["total_tokens"]
           = SumUsage(RunMessages)

\* usage was reported for the turn: on one of its messages, on the agent or
\* on the response object
UsageReported ==
    \/ \E i \in 1..Len(RunMessages) : Truthy(RunMessages[i].usage)
    \/ Truthy(locals.agent_usage)
    \/ Truthy(locals.response_usage)

\* C4: the estimator's figures are used only when no usage was reported for
\* the turn; whenever usage is reported on a message, the agent or the
\* response, the increment is computed from reported figures.
C4_ReportedTakesPrecedence ==
    TurnCompleted =>
        (UsageReported => locals.branch = "exact")

\* C5 as stated: the agent's tool list is the billing tools followed by the
\* AWS API tools of the providers whose start and list_tools succeeded,
\* whatever the start outcomes.
C5_ToolsAreConcatenation ==
    InitDone =>
        /\ agent
        /\ agent_tools = locals.billing_tools \o locals.aws_api_tools

\* C5 amended: as stated when the Agent constructor accepts the tool list;
\* when it raises, the fallback agent is created with an empty tool list.  A
\* provider that fails adds nothing and leaves the other provider's tools in.
C5_ToolsAreConcatenationUnlessFallback ==
    InitDone =>
        /\ agent
        /\ agent_tools = IF locals.ctor_ok
                         THEN locals.billing_tools \o locals.aws_api_tools
                         ELSE <<>>
        /\ ~locals.listed.billing => locals.billing_tools = <<>>
        /\ ~locals.listed.aws_api => locals.aws_api_tools = <<>>
        /\ locals.listed.billing =>
              /\ conn.billing = "Ready"
              /\ locals.billing_tools # <<>>
              /\ \A i \in 1..Len(locals.billing_tools) :
                    locals.billing_tools[i].provider = "billing"
        /\ locals.listed.aws_api =>
              /\ conn.aws_api = "Ready"
              /\ locals.aws_api_tools # <<>>
              /\ \A i \in 1..Len(locals.aws_api_tools) :
                    locals.aws_api_tools[i].provider = "aws_api"

\* the billing server failed to start, the AWS API server's tools are the
\* agent's
C5_Witness ==
    /\ InitDone
    /\ conn.billing = "Failed"
    /\ locals.listed.aws_api
    /\ Len(agent_tools) = 2
    /\ agent_tools[1].provider = "aws_api"

\* C6: the tool set handed to the agent holds at most one entry of a name.
C6_ToolNamesUnique ==
    agent =>
        \A i, j \in 1..Len(agent_tools) :
            agent_tools[i].name = agent_tools[j].name => i = j

\* the latest ToolResult block of the conversation
LastToolResult ==
    LET idx == { i \in 1..Len(agent_messages) :
                    /\ agent_messages[i].role = "user"
                    /\ "toolResult" \in DOMAIN agent_messages[i].content[1] }
        last == CHOOSE i \in idx : \A j \in idx : j <= i
    IN  agent_messages[last].content[1].toolResult

\* C7: inside the loop a tool failure is a ToolResult of status error in the
\* conversation and the loop goes on to the model, it raises only when the
\* model call fails; a crash leaves the connection Failed and a dispatch to a
\* connection that is not Ready yields status error.
C7_ToolFailuresAreData ==
    /\ last_dispatch.outcome # "none" =>
          /\ pc = "in_agent"
          /\ LastToolResult.status =
                 (IF last_dispatch.outcome = "ok" THEN "success" ELSE "error")
          /\ last_dispatch.conn_before # "Ready" => LastToolResult.status = "error"
          /\ last_dispatch.outcome = "crash" =>
                 conn[last_dispatch.provider] = "Failed"
    /\ loop = "AwaitingModel" =>
          agent_messages[Len(agent_messages)].role = "user"
    /\ loop = "Raised" =>
          agent_messages[Len(agent_messages)].role = "user"

\* a dispatch to a connection that an earlier crash left Failed
C7_Witness ==
    /\ loop = "AwaitingModel"
    /\ last_dispatch.conn_before = "Failed"
    /\ last_dispatch.outcome = "not_ready"
    /\ LastToolResult.status = "error"

\* the turns of a finished run: User, then Assistant(ToolUse) and
\* User(ToolResult) in pairs, then an Assistant turn without a tool call
RunShape(run, k) ==
    /\ Len(run) = 2 * k + 2
    /\ run[1].role = "user" /\ "text" \in DOMAIN run[1].content[1]
    /\ \A n \in 1..k :
          /\ run[2 * n].role = "assistant"
          /\ "toolUse" \in DOMAIN run[2 * n].content[Len(run[2 * n].content)]
          /\ run[2 * n + 1].role = "user"
          /\ "toolResult" \in DOMAIN run[2 * n + 1].content[1]
    /\ run[2 * k + 2].role = "assistant"
    /\ \A b \in 1..Len(run[2 * k + 2].content) :
          "toolUse" \notin DOMAIN run[2 * k + 2].content[b]

\* C8: a turn in which the model requests k tool calls and then answers
\* appends exactly 2k+2 turns: User, k times (Assistant(ToolUse),
\* User(ToolResult)), Assistant; each result is appended before the next
\* model call.
C8_RunAppendsTwoKPlusTwo ==
    /\ (pc = "in_agent" /\ loop = "Done") => RunShape(RunMessages, tool_calls)
    /\ (pc = "in_agent" /\ loop = "AwaitingModel") =>
          /\ Len(RunMessages) = 2 * tool_calls + 1
          /\ agent_messages[Len(agent_messages)].role = "user"
    /\ (pc = "in_agent" /\ loop = "AwaitingTool") =>
          Len(RunMessages) = 2 * tool_calls

\* a run with two tool calls has finished
C8_Witness ==
    /\ pc = "in_agent"
    /\ loop = "Done"
    /\ tool_calls = 2
    /\ Len(RunMessages) = 6

\* the text of a turn: that of its first text block, empty when it has none
TurnText(m) == IF HasText(m.content) THEN FirstText(m.content) ELSE ""

\* C9: after a completed turn the answer shown and stored in the display
\* history is the text of the final assistant turn of that run.
C9_AnswerIsFinalTurnText ==
    TurnCompleted =>
        /\ locals.assistant_response = TurnText(agent_messages[Len(agent_messages)])
        /\ ss_messages[Len(ss_messages)].content
               = TurnText(agent_messages[Len(agent_messages)])

\* C10: when the model call fails the error leaves the turn: the script run
\* ends at the agent call, nothing is retried or appended, and the ledger is
\* as it was when the turn started.
C10_ModelFailurePropagates ==
    ((pc = "in_agent" /\ loop = "Raised") \/ (pc = "idle" /\ last_run = "turn_raised")) =>
        /\ LedgerView(stats) = h_before
        /\ LedgerView(stats) = h_sum
        /\ locals.branch = "none"
        /\ ss_messages[Len(ss_messages)] = [role |-> "user", content |-> locals.prompt]
        /\ agent_messages[Len(agent_messages)].role = "user"

\* a turn raised after an earlier turn had been counted
C10_Witness ==
    /\ last_run = "turn_raised"
    /\ pc = "idle"
    /\ LedgerView(stats)["total_requests"] = 1
    /\ LedgerView(stats)["total_tokens"] > 0

\* s is a prefix of t
IsPrefix(s, t) == Len(s) <= Len(t) /\ SubSeq(t, 1, Len(s)) = s

\* new is old with a non-empty prefix replaced by the synthetic summary turn
IsSummarizationOf(old, new) ==
    /\ new # <<>>
    /\ new[1] = SummaryTurn
    /\ \E k \in 1..Len(old) : Tail(new) = SubSeq(old, k + 1, Len(old))

\* C11: the agent's conversation store changes only by appending turns at its
\* end or by a summarization that replaces a prefix with one synthetic turn;
\* no button and no rerun removes, reorders or mutates appended turns.
C11_StoreAppendOnly ==
    [][ \/ IsPrefix(agent_messages, agent_messages')
        \/ IsSummarizationOf(agent_messages, agent_messages') ]_vars

\* C17: right after a summarization the conversation has exactly
\* preserve_recent_messages + 1 = 16 turns: the synthetic turn, then the 15
\* most recent turns as they were.
C17_SnapshotIsSixteen ==
    (pc = "in_agent" /\ loop = "AwaitingModel" /\ tool_calls = 0 /\ h_summary.ran) =>
        /\ Len(agent_messages) = PreserveRecentMessages + 1
        /\ agent_messages[1] = SummaryTurn
        /\ Tail(agent_messages) =
               SubSeq(h_summary.before,
                      Len(h_summary.before) - PreserveRecentMessages + 1,
                      Len(h_summary.before))

\* C18: after a completed turn during which a summarization ran, the ledger's
\* increments hold the summarization request's tokens and cost on top of
\* those of the turn's own model calls.
C18_SummarizationAccounted ==
    (TurnCompleted /\ h_summary.ran) =>
        /\ LedgerView(stats)["total_tokens"] - h_before["total_tokens"]
               >= locals.inc_tokens + h_summary.tokens
        /\ LedgerView(stats)["total_cost"] - h_before["total_cost"]
               >= locals.inc_cost + h_summary.cost

\* ceil(n / 3.2) for an int n >= 0
CeilDiv3_2(n) == (5 * n + 15) \div 16

\* C19: for a non-empty text of n characters estimate_tokens_from_text
\* returns max(1, ceil(n / 3.2)).
C19_EstimateIsCeiling ==
    (est_tokens # -1 /\ est_text # <<>>) =>
        est_tokens = Max(1, CeilDiv3_2(Len(est_text)))

\* C20: estimate_tokens_from_text depends on its input alone: a call with the
\* text of the call before returns what that call returned; the empty text
\* gives 0 and every non-empty text at least 1.
C20_EstimatorPure ==
    est_tokens # -1 =>
        /\ est_text = <<>> => est_tokens = 0
        /\ est_text # <<>> => est_tokens >= 1
        /\ (est_prev.tokens # -1 /\ est_prev.text = est_text) =>
               est_tokens = est_prev.tokens

\* a text of two characters, whose quotient is 0, estimated twice in a row
C20_Witness ==
    /\ est_tokens = 1
    /\ Len(est_text) = 2
    /\ est_prev.text = est_text
    /\ est_prev.tokens = 1

\* the kind of entry a call of the callback contributes, "" when none
EntryKind(kwargs) ==
    IF kwargs.key = "data" THEN "data"
    ELSE IF kwargs.key = "current_tool_use" /\ kwargs.name # "" /\ kwargs.has_input
    THEN "tool_use"
    ELSE IF kwargs.key = "reasoningText" THEN "reasoning"
    ELSE ""

\* the content a call of the callback contributes
EntryContent(kwargs) ==
    IF EntryKind(kwargs) = "tool_use"
    THEN "Using tool: " \o kwargs.name \o " with args: " \o kwargs.text
    ELSE kwargs.text

RECURSIVE Coalesced(_, _)
\* the calls merged as the claim says: consecutive contributions of one kind
\* become one entry, their contents concatenated in arrival order
Coalesced(events, acc) ==
    IF events = <<>> THEN acc
    ELSE LET k == EntryKind(Head(events))
             c == EntryContent(Head(events))
         IN  Coalesced(Tail(events),
                 IF k = "" THEN acc
                 ELSE IF acc # <<>> /\ acc[Len(acc)].type = k
                 THEN [acc EXCEPT ![Len(acc)].content = @ \o c]
                 ELSE Append(acc, [type |-> k, content |-> c]))

\* between script runs, the latest run being a completed streaming turn
StreamCompleted == pc = "idle" /\ last_run = "stream_completed"

\* C16: after a streaming turn completes the stored output has no two
\* adjacent entries of one kind: consecutive fragments of a kind are merged
\* into one entry, concatenated in arrival order, and entries of different
\* kinds keep their arrival order.
C16_OutputCoalesced ==
    StreamCompleted =>
        /\ \A i \in 1..(Len(output) - 1) : output[i].type # output[i + 1].type
        /\ output = Coalesced(h_events, <<>>)

\* the two tool providers
Providers == { "billing", "aws_api" }

\* C13: a call of cleanup_mcp_clients lets no exception out: a close that
\* fails is logged, the close of every stored client is attempted all the
\* same, and a further call on connections already closed does likewise.
C13_CleanupNeverRaises ==
    cleanup_calls > 0 =>
        /\ ~cleanup_log.raised
        /\ \A p \in Providers :
              /\ stored[p] <=> cleanup_log[p] # "skipped"
              /\ cleanup_log[p] = "closed" => conn[p] = "Closed"

\* the second call at exit: the billing client's close fails, the AWS API
\* client is closed nonetheless
C13_Witness ==
    /\ cleanup_calls = 2
    /\ cleanup_log.billing = "error_logged"
    /\ cleanup_log.aws_api = "closed"
    /\ conn.aws_api = "Closed"

\* C14: once the session has ended none of the tool-provider subprocesses it
\* started is still running (while the exiting process runs its handlers the
\* close may still be under way).
C14_NoSubprocessOutlivesSession ==
    (pc = "ended" /\ proc # "exiting") => \A p \in Providers : conn[p] # "Ready"

\* every turn holding a tool use is directly followed by the turn holding
\* its result
NoOrphanToolUse(msgs) ==
    \A i \in 1..Len(msgs) :
        (\E b \in 1..Len(msgs[i].content) : "toolUse" \in DOMAIN msgs[i].content[b])
        => /\ i < Len(msgs)
           /\ msgs[i + 1].role = "user"
           /\ "toolResult" \in DOMAIN msgs[i + 1].content[1]

\* C15: a turn abandoned while the tool-call loop runs leaves the store
\* consistent: whenever no dispatch is pending, and so whenever the script
\* run has stopped, every ToolUse turn is directly followed by its ToolResult.
C15_AbandonedTurnConsistent ==
    (pc # "in_agent" \/ loop # "AwaitingTool") => NoOrphanToolUse(agent_messages)

\* the stop was requested while a tool call was pending; the run has stopped
\* and the store holds the call and its result
C15_Witness ==
    /\ pc \in {"idle", "ended"}
    /\ last_run = "turn_abandoned"
    /\ stop_request.h_at = "AwaitingTool"
    /\ \E i \in 1..Len(agent_messages) :
          "toolResult" \in DOMAIN agent_messages[i].content[1]

\* what the claim names of a session: conversation store, display history,
\* provider connections and ledger
SessionView(st) ==
    [agent_messages |-> st.agent_messages, ss_messages |-> st.ss_messages,
     conn |-> st.conn, stats |-> st.stats]

\* C12: with the sessions' steps interleaved in any way, a step of one
\* session leaves the conversation store, display history, provider
\* connections and ledger of every other session as they were, and a session
\* that runs again finds them as its own steps left them.
C12_SessionsIsolated ==
    [][ /\ cur' = cur =>
              \A s \in Sessions \ {cur} :
                  SessionView(parked'[s]) = SessionView(parked[s])
        /\ cur' # cur =>
              /\ SessionView(SessionState)' = SessionView(parked[cur'])
              /\ SessionView(parked'[cur]) = SessionView(SessionState)
              /\ \A s \in Sessions \ {cur, cur'} :
                    SessionView(parked'[s]) = SessionView(parked[s]) ]_vars

\* session s2 has had a turn and then reset its statistics; the ledger and
\* the conversation of s1 still hold s1's turn
C12_Witness ==
    /\ cur = "s2"
    /\ last_run = "reset_stats"
    /\ agent_messages # <<>>
    /\ DOMAIN stats = {}
    /\ parked["s1"].stats # EmptyStats
    /\ parked["s1"].stats["total_requests"] = 1
    /\ Len(parked["s1"].agent_messages) = 4

\* the conversation the turn's last model request carried: every turn in the
\* store when the model produced its final answer, the answer itself not
\* among them
SentToModel == SubSeq(agent_messages, 1, Len(agent_messages) - 1)

\* C21: when usage is estimated, the turn's estimated input tokens are the
\* estimate of what was sent to the model: the system prompt and every turn
\* sent, with all their content blocks; the model's final answer, which was
\* not sent, is not counted as input.
C21_EstimatedInputIsWhatWasSent ==
    (TurnCompleted /\ locals.branch = "estimated") =>
        locals.usage_metrics.inputTokens = calculate_conversation_tokens(SentToModel)

\* C22: the cost a completed turn adds to the ledger is input tokens times
\* the input rate plus output tokens times the output rate (in units of 1e-6
\* USD: i * 3 + o * 15), for reported as for estimated usage, and the request
\* cost shown for the turn is that same amount.
C22_CostFormula ==
    TurnCompleted =>
        LET i == locals.usage_metrics.inputTokens
            o == locals.usage_metrics.outputTokens
            added == LedgerView(stats)["total_cost"] - h_before["total_cost"]
        IN  /\ added = i * InputRate + o * OutputRate
            /\ locals.inc_cost = added
            /\ (i = 0 /\ o = 0) => added = 0
            /\ (i > 0 \/ o > 0) => locals.total_request_cost = added
            /\ locals.total_request_cost # NotDisplayed =>
                  locals.total_request_cost = added

\* a turn on reported usage of 10 input and 2 output tokens after a turn on
\* estimated usage: 60 millionths of a dollar are added and shown
C22_Witness ==
    /\ TurnCompleted
    /\ locals.branch = "exact"
    /\ locals.usage_metrics = Usage(10, 2)
    /\ locals.total_request_cost = 60
    /\ h_before["total_requests"] = 1
    /\ h_before["total_cost"] > 0

\* the provider's tools the agent was constructed with
ToolsOf(p) == { i \in 1..Len(agent_tools) : agent_tools[i].provider = p }

\* the provider was to be started and its __enter__ raised: the connection
\* is Failed and no client is stored
OpenFailed(p) == conn[p] = "Failed" /\ ~stored[p]

\* C23: during session initialization list_tools is invoked on a provider
\* connection only after its __enter__ has returned; when __enter__ raised,
\* list_tools is not invoked, the client is not stored, no tool of the
\* provider reaches the agent, and no tool call and no close is ever issued
\* to the connection.
C23_ListOnlyAfterOpen ==
    /\ InitDone =>
          \A p \in Providers :
              /\ locals.list_called[p] => locals.entered[p] /\ conn[p] = "Ready"
              /\ locals.listed[p] => locals.list_called[p]
              /\ ~locals.entered[p] =>
                    /\ ~locals.list_called[p]
                    /\ ~stored[p]
                    /\ conn[p] # "Ready"
                    /\ ToolsOf(p) = {}
    /\ \A p \in Providers :
          OpenFailed(p) =>
              /\ ToolsOf(p) = {}
              /\ last_dispatch.provider # p
              /\ cleanup_log[p] = "skipped"

\* the billing server failed to start, the AWS API server started and served
\* a turn; the process has exited, having closed the AWS API connection only
C23_Witness ==
    /\ proc = "exited"
    /\ OpenFailed("billing")
    /\ conn["aws_api"] = "Closed"
    /\ cleanup_log["aws_api"] = "closed"
    /\ \E i \in 1..Len(agent_messages) :
          "toolResult" \in DOMAIN agent_messages[i].content[1]

\* C24: between script runs the three ledger keys are all absent, or all
\* present with total_requests >= 1; so whenever the sidebar shows the
\* metrics, every key it reads is there and the divisor of the average cost
\* per request is not zero.
C24_LedgerKeysTogether ==
    pc = "idle" =>
        /\ \/ DOMAIN stats \cap LedgerKeys = {}
           \/ LedgerKeys \subseteq DOMAIN stats /\ stats["total_requests"] >= 1
        /\ SidebarShowsMetrics(stats) =>
              SidebarReads \subseteq DOMAIN stats /\ stats["total_requests"] # 0

\* two turns have completed since the session started: the sidebar shows the
\* metrics of a ledger that holds two requests
C24_Witness ==
    /\ pc = "idle"
    /\ SidebarShowsMetrics(stats)
    /\ stats["total_requests"] = 2
    /\ stats["total_cost"] > 0
    /\ h_turns = 2

\* the turns the completed run has rendered: agent.messages[start_index:],
\* start_index being the local the render block read before the update
RenderedSlice ==
    SubSeq(agent_messages, locals.start_index + 1, Len(agent_messages))

\* C25: when a turn has completed, start_index equals len(agent.messages),
\* and the slice agent.messages[start_index:] the run rendered holds exactly
\* the turns that run appended, whatever turns, Fresh Chat actions and
\* summarizations came before or during it.
C25_SliceIsThisRun ==
    TurnCompleted =>
        /\ start_index = Len(agent_messages)
        /\ RenderedSlice = RunMessages

\* C26: in app.py, between script runs, the display history alternates user,
\* assistant, user, assistant, ... starting with user, after any sequence of
\* chat turns (completed, or aborted by a raised agent call), Fresh Chat and
\* Reset Stats actions: no user entry is followed by another user entry.
C26_DisplayAlternates ==
    pc = "idle" =>
        \A i \in 1..Len(ss_messages) :
            ss_messages[i].role = IF i % 2 = 1 THEN "user" ELSE "assistant"

LoginChanges(logged_in) ==
    /\ pc \in {"new", "idle"}
    /\ logged_in # is_logged_in
    /\ is_logged_in' = logged_in
    /\ UNCHANGED <<sessionVars, atexit_registered, proc, cleanup_calls,
                   cleanup_log, cur, parked, est_text, est_tokens, est_prev>>

\* a script run in which login() returns false: st.stop() ends it at the
\* login step
StoppedAtLogin ==
    /\ pc \in {"new", "idle"}
    /\ ~PassesLogin(is_logged_in)
    /\ locals' = InitLocals
    /\ last_run' = "not_logged_in"
    /\ UNCHANGED <<pc, conn, stored, agent, agent_tools, agent_messages,
                   ss_messages, start_index, stats, loop, tool_calls,
                   last_dispatch, h_run_start, h_before, h_sum, h_turns>>
    /\ UNCHANGED <<stop_request, h_summary, atexit_registered, apart>>

\* a session behind the login step: the billing server may fail to start
AuthInputs ==
    [b_enter |-> BOOLEAN, b_list |-> {TRUE}, a_client |-> {FALSE},
     a_enter |-> {FALSE}, a_list |-> {FALSE}, ctor_ok |-> {TRUE},
     b_tools |-> { <<"cost_explorer">> }, a_tools |-> { <<"describe">> },
     max_messages |-> MaxAuthMessages, max_tool_calls |-> MaxAuthToolCalls,
     max_turns |-> MaxAuthTurns,
     preambles |-> { <<>> }, finals |-> { <<TextBlock(t)>> : t \in AnswerTexts },
     msg_usages |-> { NoUsage }, attr_usages |-> { NoUsage },
     outcomes |-> {"ok"}]

\* the session starts with nobody logged in
InitAuth ==
    /\ InitOneSession
    /\ atexit_registered = FALSE
    /\ proc = "running"
    /\ cleanup_calls = 0
    /\ cleanup_log = NoCleanup
    /\ cur = "s1"
    /\ parked = [s \in Sessions |-> NewSessionState]
    /\ is_logged_in = FALSE
    /\ est_text = <<>>
    /\ est_tokens = -1
    /\ est_prev = NoEstimate

NextAuth ==
    \/ Step(AuthInputs)
    \/ StoppedAtLogin
    \/ \E logged_in \in BOOLEAN : LoginChanges(logged_in)

SpecAuth == InitAuth /\ [][NextAuth]_vars

\* C28: with authentication enabled, a script run in which login() returns
\* false executes nothing beyond the login step: no provider subprocess is
\* started, no client stored, no agent created, no prompt taken or sent to
\* the model, and neither the conversation nor the ledger is touched.
C28_NothingBeyondLogin ==
    [][ (ENABLE_AUTH /\ ~is_logged_in) =>
            UNCHANGED <<pc, conn, stored, agent, agent_tools, agent_messages,
                        ss_messages, start_index, stats, loop, tool_calls,
                        last_dispatch, h_turns, atexit_registered>> ]_vars

\* a script run of a new session has stopped at the login step: no provider
\* is started and no agent exists
C28_Witness ==
    /\ ~is_logged_in
    /\ last_run = "not_logged_in"
    /\ pc = "new"
    /\ ~agent
    /\ \A p \in Providers : conn[p] = "Unstarted" /\ ~stored[p]
    /\ agent_messages = <<>>

\* the step is a script run in which the named sidebar button was pressed
ButtonRun(button) == pc = "idle" /\ pc' = "idle" /\ last_run' = button

\* C29: the two sidebar controls are independent: a Fresh Chat run changes
\* the display history, agent.messages and start_index and leaves the ledger
\* as it was; a Reset Stats run changes the ledger keys and leaves the
\* display history, agent.messages and start_index as they were; neither
\* touches the agent, its tools or the connections.
C29_ControlsIndependent ==
    [][ /\ ButtonRun("fresh_chat") =>
              /\ stats' = stats
              /\ UNCHANGED <<agent, agent_tools, conn, stored>>
        /\ ButtonRun("reset_stats") =>
              /\ UNCHANGED <<ss_messages, agent_messages, start_index>>
              /\ UNCHANGED <<agent, agent_tools, conn, stored>>
              /\ DOMAIN stats' \subseteq DOMAIN stats
              /\ \A k \in DOMAIN stats \ LedgerKeys :
                    k \in DOMAIN stats' /\ stats'[k] = stats[k] ]_vars

\* Fresh Chat was pressed after a completed turn: both histories are empty
\* and the ledger still holds the turn
C29_Witness ==
    /\ pc = "idle"
    /\ last_run = "fresh_chat"
    /\ ss_messages = <<>>
    /\ agent_messages = <<>>
    /\ start_index = 0
    /\ DOMAIN stats = LedgerKeys
    /\ stats["total_requests"] = 1
    /\ stats["total_tokens"] > 0

\* the step is a call of the streaming callback
CallbackStep == Len(h_events') = Len(h_events) + 1

\* the call carried a fragment: data, reasoning text or a named tool use
HasFragment(e) ==
    \/ e.key \in {"data", "reasoningText"}
    \/ e.key = "current_tool_use" /\ e.name # ""

\* the buffer has a new last entry or a longer last entry, the entries
\* before it as they were
FragmentRecorded(before, after) ==
    \/ /\ Len(after) = Len(before) + 1
       /\ SubSeq(after, 1, Len(before)) = before
    \/ /\ Len(after) = Len(before)
       /\ after # before
       /\ SubSeq(after, 1, Len(before) - 1) = SubSeq(before, 1, Len(before) - 1)

\* C30: the streaming callback never raises into the agent loop: for every
\* event, a tool use without input and a fragment of unexpected type
\* included, it records the fragment or prints the error, and when it prints
\* an error the entries of the output buffer are as they were.
C30_CallbackNeverRaises ==
    [][ CallbackStep =>
            LET e == h_events'[Len(h_events')]
            IN  /\ e.raised = ""
                /\ loop' = loop /\ pc' = pc
                /\ HasFragment(e) =>
                      \/ e.logged = "" /\ FragmentRecorded(output_buffer, output_buffer')
                      \/ e.logged # "" /\ output_buffer' = output_buffer
                /\ ~HasFragment(e) => e.logged = "" /\ output_buffer' = output_buffer
      ]_vars

\* a data fragment was recorded, then a fragment that is not a string made
\* += raise and a tool use came without input: both errors were printed and
\* the buffer holds the first fragment alone
C30_Witness ==
    /\ pc = "in_agent"
    /\ Len(h_events) = 3
    /\ h_events[1].logged = ""
    /\ h_events[2].logged = "TypeError"
    /\ h_events[3].logged = "KeyError"
    /\ output_buffer = <<[type |-> "data", content |-> "You "]>>

=============================================================================
